---------------------------- MODULE Spec2Model ----------------------------
(***************************************************************************)
(* A model of the LLM-based LaTeX generator                               *)
(* (src/tools/llm_latex_generator.py) and of the report generator's       *)
(* content loader (src/agents/research_agent/llm_report_generator.py).    *)
(*                                                                         *)
(* Text is modelled character by character: a Python str is a sequence of *)
(* one-character strings, and str.find, slicing, str.strip and str.count  *)
(* are modelled with 0-based offsets as in Python and negative-index rules.   *)
(* The external text-generation service is the environment: each call     *)
(* either raises or replies with a text drawn from a bounded set.         *)
(***************************************************************************)
EXTENDS Integers, Sequences, FiniteSets, TLC

VARIABLES
    pc,               \* position of the running entry point
    latex_content,    \* the document passed to / held by the entry point
    response_text,    \* text of the last service reply (<<>> before any)
    raised,           \* TRUE iff the last service call raised
    ret,              \* what the entry point returned (meaningful at "done")
    validate,         \* generate_document's validate argument
    issues,           \* apply_visual_qa_fixes' issues argument
    max_attempts,     \* self_correct_compilation_errors' max_attempts
    attempt,          \* the loop variable of the self-correction loop
    calls,            \* service calls issued so far by the entry point
    history,          \* outcome of each self-correction attempt so far
    corrections_made, \* the self-correction log
    content_dir,      \* markdown file name -> file state
    data_dir,         \* csv file name -> file state
    step,             \* where generate_and_compile stands ("none": not run)
    request,          \* the LaTeXGenerationRequest it built from the loaders
    tex_file,         \* content of research_report.tex in the output directory
    compilations,     \* the answers of pdf_compiler.compile, one per call
    outcome           \* what generate_and_compile returned

vars == <<pc, latex_content, response_text, raised, ret, validate, issues,
          max_attempts, attempt, calls, history, corrections_made,
          content_dir, data_dir,
          step, request, tex_file, compilations, outcome>>

-----------------------------------------------------------------------------
(* Bounds of the model.                                                    *)

\* Longest reply to a validation or correction call, counted in pieces.
MaxPieces == 3
\* Longest fence-only reply explored for the extraction rule, in pieces.
MaxFencePieces == 5
\* Longest reply to a call made by generate_document, in pieces.
MaxGenPieces == 2
\* Largest max_attempts explored.
MaxAttemptsBound == 3
\* Pieces of a reply to one correction attempt.
MaxCorrectionPieces == 2
\* Most lines of a CSV file.
MaxCsvLines == 8

-----------------------------------------------------------------------------
(* Text constants (Python string literals of the source).                  *)

\* The backquote character (TLA+ string literals cannot hold it, so the
\* one-character string is written by name).
BQ == "backquote"
FENCE == <<BQ, BQ, BQ>>
FENCE_LATEX == <<BQ, BQ, BQ, "l", "a", "t", "e", "x">>
BEGIN_DOC == <<"\\", "b", "e", "g", "i", "n", "{",
               "d", "o", "c", "u", "m", "e", "n", "t", "}">>
END_DOC == <<"\\", "e", "n", "d", "{",
             "d", "o", "c", "u", "m", "e", "n", "t", "}">>
BEGIN_ENV == <<"\\", "b", "e", "g", "i", "n", "{">>
END_ENV == <<"\\", "e", "n", "d", "{">>
ISSUES_MARKER == <<"\"", "i", "s", "s", "u", "e", "s", "\"", ":">>
ISSUES_KEY == <<"i", "s", "s", "u", "e", "s">>
LBRACE == <<"{">>
RBRACE == <<"}">>

\* Characters str.strip() removes (those that occur in the modelled texts).
Whitespace == {" ", "\n", "\t", "\r"}

-----------------------------------------------------------------------------
(* Python str primitives, with 0-based offsets as in Python.                   *)

SetMin(S) == CHOOSE x \in S : \A y \in S : x <= y
SetMax(S) == CHOOSE x \in S : \A y \in S : x >= y

\* A slice bound normalised as Python does: negative counts from the end,
\* then clamped to 0..len.
PyIndex(s, i) ==
    IF i < 0 THEN (IF i + Len(s) < 0 THEN 0 ELSE i + Len(s))
    ELSE IF i > Len(s) THEN Len(s) ELSE i

\* sub occurs in s at 0-based offset i.
OccursAt(s, sub, i) ==
    /\ i >= 0
    /\ i + Len(sub) <= Len(s)
    /\ \A k \in 1..Len(sub) : s[i + k] = sub[k]

\* 0-based offsets at which sub occurs in text.
Offsets(text, sub) == {i \in 0..(Len(text) - Len(sub)) : OccursAt(text, sub, i)}

\* s.find(sub, start): lowest offset >= start where sub occurs, else -1.
PyFind(s, sub, start) ==
    LET from == IF start < 0 THEN PyIndex(s, start) ELSE start
        hits == {i \in from..(Len(s) - Len(sub)) : OccursAt(s, sub, i)}
    IN  IF hits = {} THEN -1 ELSE SetMin(hits)

\* sub in s
PyIn(sub, s) == PyFind(s, sub, 0) # -1

\* s[a:b]
PySlice(s, a, b) ==
    LET lo == PyIndex(s, a)
        hi == PyIndex(s, b)
    IN  IF lo >= hi THEN <<>> ELSE SubSeq(s, lo + 1, hi)

\* s.strip()
PyStrip(s) ==
    LET keep == {i \in 1..Len(s) : s[i] \notin Whitespace}
    IN  IF keep = {} THEN <<>> ELSE SubSeq(s, SetMin(keep), SetMax(keep))

\* s.count(sub): non-overlapping occurrences, scanning left to right.
RECURSIVE PyCountFrom(_, _, _)
PyCountFrom(s, sub, start) ==
    LET i == PyFind(s, sub, start)
    IN  IF i = -1 THEN 0 ELSE 1 + PyCountFrom(s, sub, i + Len(sub))

PyCount(s, sub) == PyCountFrom(s, sub, 0)

\* len(candidate) < len(original) * 0.5, in integers.
ShorterThanHalf(candidate, original) == 2 * Len(candidate) < Len(original)

-----------------------------------------------------------------------------
(* LLMLaTeXGenerator._extract_latex_from_response                          *)

\* A plausible slip: the tagged branch skips only the three backticks.
extract_skipping_fence_only(text) ==
    IF PyIn(FENCE_LATEX, text) THEN
        LET start == PyFind(text, FENCE_LATEX, 0) + 3
            end == PyFind(text, FENCE, start)
        IN  PyStrip(PySlice(text, start, end))
    ELSE IF PyIn(FENCE, text) THEN
        LET start == PyFind(text, FENCE, 0) + 3
            end == PyFind(text, FENCE, start)
        IN  PyStrip(PySlice(text, start, end))
    ELSE PyStrip(text)

extract_latex_from_response(text) ==
    IF PyIn(FENCE_LATEX, text) THEN
        LET start == PyFind(text, FENCE_LATEX, 0) + 8
            end == PyFind(text, FENCE, start)
        IN  PyStrip(PySlice(text, start, end))
    ELSE IF PyIn(FENCE, text) THEN
        LET start == PyFind(text, FENCE, 0) + 3
            end == PyFind(text, FENCE, start)
        IN  PyStrip(PySlice(text, start, end))
    ELSE PyStrip(text)

-----------------------------------------------------------------------------
(* Python values as json.loads produces them.  Every value carries every   *)
(* field, so that any two values can be compared.                          *)

PyValue(k, c, i, m, num) ==
    [kind |-> k, chars |-> c, items |-> i, members |-> m, n |-> num]
PyNone == PyValue("none", <<>>, <<>>, <<>>, 0)
PyBool(b) == PyValue("bool", <<>>, <<>>, <<>>, IF b THEN 1 ELSE 0)
PyInt(num) == PyValue("int", <<>>, <<>>, <<>>, num)
PyStr(c) == PyValue("str", c, <<>>, <<>>, 0)
PyList(i) == PyValue("list", <<>>, i, <<>>, 0)
PyDict(m) == PyValue("dict", <<>>, <<>>, m, 0)

\* bool(v)
PyTruthy(v) ==
    CASE v.kind = "none" -> FALSE
      [] v.kind = "bool" -> v.n = 1
      [] v.kind = "int" -> v.n # 0
      [] v.kind = "str" -> v.chars # <<>>
      [] v.kind = "list" -> v.items # <<>>
      [] v.kind = "dict" -> v.members # <<>>

\* len(v) is defined (otherwise len raises TypeError)
PySized(v) == v.kind \in {"str", "list", "dict"}

\* len(v), for a sized v
PyLen(v) ==
    CASE v.kind = "str" -> Len(v.chars)
      [] v.kind = "list" -> Len(v.items)
      [] v.kind = "dict" -> Len(v.members)
      [] OTHER -> 0

\* iter(v) is defined (otherwise list.extend(v) raises TypeError)
PyIterable(v) == v.kind \in {"str", "list", "dict"}

\* list(v), for an iterable v: a str yields its characters, a dict its keys.
PyElements(v) ==
    CASE v.kind = "str" -> [i \in 1..Len(v.chars) |-> PyStr(<<v.chars[i]>>)]
      [] v.kind = "list" -> v.items
      [] v.kind = "dict" -> [i \in 1..Len(v.members) |-> PyStr(v.members[i].key)]
      [] OTHER -> <<>>

\* d.get(key, default): the last member with that key wins, as in json.loads.
DictGet(d, key, default) ==
    LET hits == {i \in 1..Len(d.members) : d.members[i].key = key}
    IN  IF hits = {} THEN default ELSE d.members[SetMax(hits)].val

-----------------------------------------------------------------------------
(* json.loads (strict mode), over the characters the modelled replies      *)
(* hold.  Fractions, exponents, a leading minus, \uXXXX escapes and the    *)
(* NaN / Infinity literals need characters no modelled reply puts in those *)
(* places and are rejected.  A parse result is [ok, val, next], next being *)
(* the 1-based position after the value.                                   *)

JsonWhitespace == {" ", "\n", "\t", "\r"}
JsonControl == {"\n", "\t", "\r"}
JsonDigits == <<"0", "1", "2", "3", "4", "5", "6", "7", "8", "9">>
\* Named one-character strings for the control characters TLA+ cannot write.
BACKSPACE == "backspace"
FORMFEED == "formfeed"
JsonEscapes ==
    [c \in {"\"", "\\", "/", "b", "f", "n", "r", "t"} |->
        CASE c = "b" -> BACKSPACE
          [] c = "f" -> FORMFEED
          [] c = "n" -> "\n"
          [] c = "r" -> "\r"
          [] c = "t" -> "\t"
          [] OTHER -> c]

JsonFail == [ok |-> FALSE, val |-> PyNone, next |-> 0]
JsonOk(v, i) == [ok |-> TRUE, val |-> v, next |-> i]

CharAt(s, i) == IF i >= 1 /\ i <= Len(s) THEN s[i] ELSE "EOF"
IsDigit(c) == \E d \in 1..10 : JsonDigits[d] = c
DigitValue(c) == (CHOOSE d \in 1..10 : JsonDigits[d] = c) - 1

RECURSIVE SkipWs(_, _)
SkipWs(s, i) ==
    IF CharAt(s, i) \in JsonWhitespace THEN SkipWs(s, i + 1) ELSE i

\* The rest of a string literal; i is the position after the opening quote.
RECURSIVE ParseStringBody(_, _, _)
ParseStringBody(s, i, acc) ==
    LET c == CharAt(s, i)
    IN  IF i > Len(s) THEN JsonFail
        ELSE IF c = "\"" THEN JsonOk(PyStr(acc), i + 1)
        ELSE IF c = "\\" THEN
            IF i + 1 <= Len(s) /\ s[i + 1] \in DOMAIN JsonEscapes
            THEN ParseStringBody(s, i + 2, Append(acc, JsonEscapes[s[i + 1]]))
            ELSE JsonFail
        ELSE IF c \in JsonControl THEN JsonFail
        ELSE ParseStringBody(s, i + 1, Append(acc, c))

RECURSIVE ParseDigits(_, _, _)
ParseDigits(s, i, acc) ==
    IF i <= Len(s) /\ IsDigit(s[i])
    THEN ParseDigits(s, i + 1, 10 * acc + DigitValue(s[i]))
    ELSE JsonOk(PyInt(acc), i)

\* s holds word at 1-based position i
WordAt(s, i, word) == OccursAt(s, word, i - 1)

RECURSIVE ParseValue(_, _)
RECURSIVE ParseArrayItems(_, _, _)
RECURSIVE ParseMembers(_, _, _)

\* i is at the first character of an array element.
ParseArrayItems(s, i, acc) ==
    LET v == ParseValue(s, i)
        j == SkipWs(s, v.next)
    IN  IF ~v.ok THEN JsonFail
        ELSE IF CharAt(s, j) = "," THEN
            ParseArrayItems(s, SkipWs(s, j + 1), Append(acc, v.val))
        ELSE IF CharAt(s, j) = "]" THEN
            JsonOk(PyList(Append(acc, v.val)), j + 1)
        ELSE JsonFail

\* i is at the opening quote of a member name.
ParseMembers(s, i, acc) ==
    LET k == ParseStringBody(s, i + 1, <<>>)
        colon == SkipWs(s, k.next)
        v == ParseValue(s, SkipWs(s, colon + 1))
        j == SkipWs(s, v.next)
        more == SkipWs(s, j + 1)
        member == [key |-> k.val.chars, val |-> v.val]
    IN  IF CharAt(s, i) # "\"" \/ ~k.ok THEN JsonFail
        ELSE IF CharAt(s, colon) # ":" THEN JsonFail
        ELSE IF ~v.ok THEN JsonFail
        ELSE IF CharAt(s, j) = "," THEN ParseMembers(s, more, Append(acc, member))
        ELSE IF CharAt(s, j) = "}" THEN JsonOk(PyDict(Append(acc, member)), j + 1)
        ELSE JsonFail

ParseValue(s, i) ==
    LET c == CharAt(s, i)
        j == SkipWs(s, i + 1)
    IN  IF i > Len(s) THEN JsonFail
        ELSE IF c = "\"" THEN ParseStringBody(s, i + 1, <<>>)
        ELSE IF c = "{" THEN
            (IF CharAt(s, j) = "}" THEN JsonOk(PyDict(<<>>), j + 1)
             ELSE ParseMembers(s, j, <<>>))
        ELSE IF c = "[" THEN
            (IF CharAt(s, j) = "]" THEN JsonOk(PyList(<<>>), j + 1)
             ELSE ParseArrayItems(s, j, <<>>))
        ELSE IF WordAt(s, i, <<"n", "u", "l", "l">>) THEN JsonOk(PyNone, i + 4)
        ELSE IF WordAt(s, i, <<"t", "r", "u", "e">>) THEN JsonOk(PyBool(TRUE), i + 4)
        ELSE IF WordAt(s, i, <<"f", "a", "l", "s", "e">>) THEN JsonOk(PyBool(FALSE), i + 5)
        ELSE IF c = "0" THEN JsonOk(PyInt(0), i + 1)
        ELSE IF IsDigit(c) THEN ParseDigits(s, i, 0)
        ELSE JsonFail

\* json.loads(s): [ok, val]; ok = FALSE stands for the raised JSONDecodeError.
JsonLoads(s) ==
    LET v == ParseValue(s, SkipWs(s, 1))
    IN  IF v.ok /\ SkipWs(s, v.next) = Len(s) + 1 THEN v ELSE JsonFail

-----------------------------------------------------------------------------
(* The external text-generation service: a call raises, or replies with a *)
(* text.  Replies are all concatenations of a few pieces.                  *)

\* All concatenations of at most n pieces of P.
RECURSIVE Concats(_, _)
Concats(P, n) ==
    IF n = 0 THEN {<<>>}
    ELSE LET shorter == Concats(P, n - 1)
         IN  shorter \cup {p \o q : p \in P, q \in shorter}

BODY == <<"a", " ", "b", "c">>
DOC == BEGIN_DOC \o BODY \o END_DOC
LONG_DOC == DOC \o DOC \o DOC
FENCE_LATEX_NL == FENCE_LATEX \o <<"\n">>
FENCED_DOC == FENCE_LATEX_NL \o DOC \o <<"\n">> \o FENCE
ITEM_OPEN == BEGIN_ENV \o <<"i", "}">>
JSON_LIST == LBRACE \o ISSUES_MARKER \o <<" ", "[", "\"", "a", "\"", "]">> \o RBRACE
JSON_NULL == LBRACE \o ISSUES_MARKER \o <<" ", "n", "u", "l", "l">> \o RBRACE

\* Replies explored for the extraction rule: fences, the tag, text, blanks.
FencePieces == {FENCE, <<"l", "a", "t", "e", "x">>, <<"x">>, <<"\n">>}
\* Replies explored for the validation pass.
ValidationPieces ==
    {DOC, FENCED_DOC, FENCE_LATEX_NL, JSON_LIST, JSON_NULL,
     LBRACE, RBRACE, ISSUES_MARKER}
\* Replies explored for the two correction entry points.
CorrectionPieces ==
    {DOC, BEGIN_DOC, END_DOC, ITEM_OPEN, FENCE_LATEX_NL, <<"x">>}
\* Replies explored for a whole generate_document call.
GenerationPieces == {DOC, FENCED_DOC, JSON_LIST, JSON_NULL, <<"x">>}

\* What a service call can do: [raised, text].
Outcomes(replies) ==
    {[raised |-> TRUE, text |-> <<>>]}
        \cup {[raised |-> FALSE, text |-> t] : t \in replies}

\* Documents handed to the correction entry points.
Originals == {DOC, LONG_DOC}

-----------------------------------------------------------------------------
(* LLMLaTeXGenerator._validate_and_fix_latex                               *)

\* A fixed message of the source, kept whole: only its identity matters.
Message(text) == PyStr(<<text>>)

\* A plausible slip (and the reading "the first brace after the marker"):
\* the search for the opening brace starts behind the marker.
issues_json_text_after_marker(text) ==
    LET marker == PyFind(text, ISSUES_MARKER, 0)
        start == PyFind(text, LBRACE, marker + Len(ISSUES_MARKER))
        end == PyFind(text, RBRACE, start) + 1
    IN  PySlice(text, start, end)

\* response_text[start:end] of lines 297-299: the text given to json.loads.
issues_json_text(text) ==
    LET start == PyFind(text, LBRACE, 0)
        end == PyFind(text, RBRACE, start) + 1
    IN  PySlice(text, start, end)

\* A plausible slip: a parse failure leaves the warnings empty.
extract_issues_silent(text) ==
    IF ~PyIn(ISSUES_MARKER, text) THEN PyList(<<>>)
    ELSE LET parsed == JsonLoads(issues_json_text(text))
         IN  IF parsed.ok /\ parsed.val.kind = "dict"
             THEN DictGet(parsed.val, ISSUES_KEY, PyList(<<>>))
             ELSE PyList(<<>>)

\* Lines 294-302: the warnings taken from the reply.  json.loads raising,
\* or .get missing on a value that is no dict, ends in the bare except.
extract_issues(text) ==
    IF ~PyIn(ISSUES_MARKER, text) THEN PyList(<<>>)
    ELSE LET parsed == JsonLoads(issues_json_text(text))
         IN  IF parsed.ok /\ parsed.val.kind = "dict"
             THEN DictGet(parsed.val, ISSUES_KEY, PyList(<<>>))
             ELSE PyList(<<Message("Unable to parse validation issues")>>)

\* A plausible slip: the except branch reports nothing.
validation_failed_silently(original) ==
    [latex |-> original, warnings |-> PyList(<<>>), improvements |-> <<>>]

\* The tuple of the except branch (line 319).
validation_failed(original) ==
    [latex |-> original,
     warnings |-> PyList(<<Message("Validation failed")>>),
     improvements |-> <<>>]

\* A plausible slip: the length guard is dropped.
validate_and_fix_latex_unguarded(original, service) ==
    IF service.raised THEN validation_failed(original)
    ELSE LET warnings == extract_issues(service.text)
             fixed_latex == extract_latex_from_response(service.text)
         IN  IF ~PySized(warnings) THEN validation_failed(original)
             ELSE [latex |-> fixed_latex,
                   warnings |-> warnings,
                   improvements |->
                       IF PyTruthy(warnings)
                       THEN <<[fixed |-> PyLen(warnings)]>> ELSE <<>>]

\* Lines 280-319.  The result is (latex, warnings, improvements); warnings
\* is whatever value the reply's JSON held under "issues".  On the accepting
\* path len(warnings) is evaluated (line 313), and its TypeError for a value
\* without a length is caught by the except branch.
validate_and_fix_latex(original, service) ==
    IF service.raised THEN validation_failed(original)
    ELSE LET warnings == extract_issues(service.text)
             fixed_latex == extract_latex_from_response(service.text)
         IN  IF fixed_latex = <<>> \/ ShorterThanHalf(fixed_latex, original)
             THEN [latex |-> original, warnings |-> warnings,
                   improvements |-> <<>>]
             ELSE IF ~PySized(warnings) THEN validation_failed(original)
             ELSE [latex |-> fixed_latex,
                   warnings |-> warnings,
                   improvements |->
                       IF PyTruthy(warnings)
                       THEN <<[fixed |-> PyLen(warnings)]>> ELSE <<>>]

-----------------------------------------------------------------------------
(* LLMLaTeXGenerator.apply_visual_qa_fixes                                 *)

\* issues[:3]
FirstThree(list) == SubSeq(list, 1, IF Len(list) < 3 THEN Len(list) ELSE 3)

\* A plausible slip: only the opening marker of the document is looked for.
fix_accepted_begin_only(fixed_latex, original) ==
    /\ ~(fixed_latex = <<>> \/ ShorterThanHalf(fixed_latex, original))
    /\ ~(PyCount(fixed_latex, BEGIN_ENV) # PyCount(fixed_latex, END_ENV))
    /\ PyIn(BEGIN_DOC, fixed_latex)

\* Lines 394-405: the three checks a fix must pass.
fix_accepted(fixed_latex, original) ==
    /\ ~(fixed_latex = <<>> \/ ShorterThanHalf(fixed_latex, original))
    /\ ~(PyCount(fixed_latex, BEGIN_ENV) # PyCount(fixed_latex, END_ENV))
    /\ ~(~PyIn(BEGIN_DOC, fixed_latex) \/ ~PyIn(END_DOC, fixed_latex))

\* Lines 380-414: (fixed_latex, success, fixes_applied).
apply_visual_qa_fixes(original, issue_list, service) ==
    IF service.raised
    THEN [latex |-> original, success |-> FALSE, fixes_applied |-> <<>>]
    ELSE LET fixed_latex == extract_latex_from_response(service.text)
         IN  IF fix_accepted(fixed_latex, original)
             THEN [latex |-> fixed_latex, success |-> TRUE,
                   fixes_applied |-> <<[applied_for |-> FirstThree(issue_list)]>>]
             ELSE [latex |-> original, success |-> FALSE,
                   fixes_applied |-> <<>>]

-----------------------------------------------------------------------------
(* LLMLaTeXGenerator.self_correct_compilation_errors                      *)

\* A plausible slip: only the opening marker of the document is looked for.
correction_accepted_begin_only(corrected_latex, original) ==
    /\ ~(corrected_latex = <<>> \/ ShorterThanHalf(corrected_latex, original))
    /\ PyIn(BEGIN_DOC, corrected_latex)

\* Lines 496-503: the checks a correction must pass.
correction_accepted(corrected_latex, original) ==
    /\ ~(corrected_latex = <<>> \/ ShorterThanHalf(corrected_latex, original))
    /\ ~(~PyIn(BEGIN_DOC, corrected_latex) \/ ~PyIn(END_DOC, corrected_latex))


-----------------------------------------------------------------------------
(* LLMResearchReportGenerator: the content loader                          *)

\* The document structure of load_all_markdown_sections (lines 72-79).
markdown_files ==
    << [filename |-> "introduction.md", title |-> "Introduction"],
       [filename |-> "methodology.md", title |-> "Methodology"],
       [filename |-> "research_areas.md", title |-> "Research Areas"],
       [filename |-> "detailed_results.md", title |-> "Detailed Results"],
       [filename |-> "results.md", title |-> "Results Discussion"],
       [filename |-> "conclusion.md", title |-> "Conclusion"] >>

MarkdownNames == {markdown_files[i].filename : i \in 1..Len(markdown_files)}

HELLO == <<"H", "e", "l", "l", "o">>
\* What a markdown file can hold: nothing, or some text.
MarkdownContents == {<<>>, HELLO}
MarkdownFileStates ==
    {[exists |-> FALSE, content |-> <<>>]}
        \cup {[exists |-> TRUE, content |-> c] : c \in MarkdownContents}

\* Lines 54-60.
load_markdown_content(dir, filename) ==
    IF dir[filename].exists THEN dir[filename].content ELSE <<>>

\* A plausible slip: a section is appended whether or not content was read.
RECURSIVE sections_unfiltered(_, _)
sections_unfiltered(dir, i) ==
    IF i > Len(markdown_files) THEN <<>>
    ELSE <<[title |-> markdown_files[i].title,
            content |-> load_markdown_content(dir, markdown_files[i].filename),
            type |-> "markdown"]>> \o sections_unfiltered(dir, i + 1)

\* Lines 81-88: the loop over markdown_files, from entry i on.
RECURSIVE sections_from(_, _)
sections_from(dir, i) ==
    IF i > Len(markdown_files) THEN <<>>
    ELSE LET content == load_markdown_content(dir, markdown_files[i].filename)
             rest == sections_from(dir, i + 1)
         IN  IF content # <<>>
             THEN <<[title |-> markdown_files[i].title,
                     content |-> content,
                     type |-> "markdown"]>> \o rest
             ELSE rest

\* Lines 62-90.
load_all_markdown_sections(dir) == sections_from(dir, 1)

\* csv.reader on one line without quotes: the fields between the commas; an
\* empty line gives the empty row.
RECURSIVE CsvFields(_)
CsvFields(line) ==
    LET comma == PyFind(line, <<",">>, 0)
    IN  IF comma = -1 THEN <<line>>
        ELSE <<PySlice(line, 0, comma)>>
                 \o CsvFields(PySlice(line, comma + 1, Len(line)))

CsvRow(line) == IF line = <<>> THEN <<>> ELSE CsvFields(line)

\* list(csv.reader(f))
CsvRows(lines) == [i \in 1..Len(lines) |-> CsvRow(lines[i])]

\* Line i of a modelled CSV file: its number and a value; in style 2 every
\* third line is blank.
CsvLine(i, style) ==
    IF style = 2 /\ i % 3 = 2 THEN <<>>
    ELSE <<JsonDigits[(i \div 10) + 1], JsonDigits[(i % 10) + 1], ",", "v">>

CsvFileStates ==
    {[exists |-> FALSE, lines |-> <<>>]}
        \cup {[exists |-> TRUE, lines |-> [i \in 1..n |-> CsvLine(i, style)]] :
                 n \in 0..MaxCsvLines, style \in {1, 2}}

\* A plausible slip: the slice stops one row early.
limited_rows_short(rows) == <<rows[1]>> \o PySlice(rows, 1, 5)

\* Line 122: [rows[0]] + rows[1:6]
limited_rows(rows) == <<rows[1]>> \o PySlice(rows, 1, 6)

\* Lines 92-129.
load_csv_tables(dir) ==
    LET rows == CsvRows(dir["model_performance.csv"].lines)
        rows2 == CsvRows(dir["training_metrics.csv"].lines)
        performance ==
            IF dir["model_performance.csv"].exists /\ rows # <<>>
            THEN <<[caption |-> "Model Performance Comparison",
                    data |-> rows, format |-> "booktabs"]>>
            ELSE <<>>
        training ==
            IF dir["training_metrics.csv"].exists
               /\ rows2 # <<>> /\ Len(rows2) > 1
            THEN <<[caption |-> "Training Progression (First 5 Epochs)",
                    data |-> limited_rows(rows2), format |-> "booktabs"]>>
            ELSE <<>>
    IN  performance \o training

-----------------------------------------------------------------------------
(* The state machine.  Each entry point is run on its own, from a state in *)
(* which its arguments have been chosen.                                   *)

NoFiles == [f \in MarkdownNames |-> [exists |-> FALSE, content |-> <<>>]]
NoData ==
    [f \in {"model_performance.csv", "training_metrics.csv"} |->
        [exists |-> FALSE, lines |-> <<>>]]
\* No research_report.tex written yet.
Absent == <<"absent">>

\* generate_and_compile is not running: the entry point is run on its own.
NotOrchestrated ==
    /\ step = "none"
    /\ request = <<>>
    /\ tex_file = Absent
    /\ compilations = <<>>
    /\ outcome = <<>>

IssueLists == {<<>>, <<"margins">>, <<"margins", "fonts", "toc", "spacing">>}

\* _extract_latex_from_response applied to a reply.
Extract ==
    /\ pc = "extract"
    /\ pc' = "done"
    /\ ret' = extract_latex_from_response(response_text)
    /\ UNCHANGED <<latex_content, response_text, raised, validate, issues,
                   max_attempts, attempt, calls, history, corrections_made,
                   content_dir, data_dir,
                   step, request, tex_file, compilations, outcome>>

InitExtract ==
    /\ pc = "extract"
    /\ \E text \in Concats(FencePieces, MaxFencePieces) :
          /\ response_text = text
          /\ latex_content = <<>> /\ raised = FALSE /\ ret = <<>>
          /\ validate = TRUE /\ issues = <<>> /\ max_attempts = 0
          /\ attempt = 0 /\ calls = 0 /\ history = <<>>
          /\ corrections_made = <<>>
          /\ content_dir = NoFiles /\ data_dir = NoData
          /\ NotOrchestrated

SpecExtract == InitExtract /\ [][Extract]_vars

\* One call of _validate_and_fix_latex: the service call and what follows.
ValidateAndFix ==
    /\ pc = "validate_and_fix"
    /\ \E service \in Outcomes(Concats(ValidationPieces, MaxPieces)) :
          /\ response_text' = service.text
          /\ raised' = service.raised
          /\ ret' = validate_and_fix_latex(latex_content, service)
    /\ calls' = calls + 1
    /\ pc' = "done"
    /\ UNCHANGED <<latex_content, validate, issues, max_attempts, attempt,
                   history, corrections_made, content_dir, data_dir,
                   step, request, tex_file, compilations, outcome>>

InitValidate ==
    /\ pc = "validate_and_fix"
    /\ \E original \in Originals :
          /\ latex_content = original
          /\ response_text = <<>> /\ raised = FALSE /\ ret = <<>>
          /\ validate = TRUE /\ issues = <<>> /\ max_attempts = 0
          /\ attempt = 0 /\ calls = 0 /\ history = <<>>
          /\ corrections_made = <<>>
          /\ content_dir = NoFiles /\ data_dir = NoData
          /\ NotOrchestrated

SpecValidate == InitValidate /\ [][ValidateAndFix]_vars

\* One call of apply_visual_qa_fixes.
ApplyVisualQAFixes ==
    /\ pc = "apply_fixes"
    /\ \E service \in Outcomes(Concats(CorrectionPieces, MaxPieces)) :
          /\ response_text' = service.text
          /\ raised' = service.raised
          /\ ret' = apply_visual_qa_fixes(latex_content, issues, service)
    /\ calls' = calls + 1
    /\ pc' = "done"
    /\ UNCHANGED <<latex_content, validate, issues, max_attempts, attempt,
                   history, corrections_made, content_dir, data_dir,
                   step, request, tex_file, compilations, outcome>>

InitVisualQA ==
    /\ pc = "apply_fixes"
    /\ \E original \in Originals, issue_list \in IssueLists :
          /\ latex_content = original
          /\ issues = issue_list
          /\ response_text = <<>> /\ raised = FALSE /\ ret = <<>>
          /\ validate = TRUE /\ max_attempts = 0
          /\ attempt = 0 /\ calls = 0 /\ history = <<>>
          /\ corrections_made = <<>>
          /\ content_dir = NoFiles /\ data_dir = NoData
          /\ NotOrchestrated

SpecVisualQA == InitVisualQA /\ [][ApplyVisualQAFixes]_vars


\* A plausible slip: the loop bound is off by one.
more_attempts_inclusive(n, limit) == n <= limit

\* Line 441: range(1, max_attempts + 1) has a value behind n attempts.
more_attempts(n, limit) == n < limit

\* How one attempt went, as the service made it go: the call raised
\* ("exception"), or it replied with a text whose extracted document is
\* non-empty, at least half as long as the original and holds both
\* \begin{document} and \end{document} ("valid"), or with another text
\* ("invalid").
AttemptOutcome(service, original) ==
    LET text == extract_latex_from_response(service.text)
    IN  IF service.raised THEN "exception"
        ELSE IF /\ text # <<>>
                /\ 2 * Len(text) >= Len(original)
                /\ Offsets(text, BEGIN_DOC) # {}
                /\ Offsets(text, END_DOC) # {}
        THEN "valid"
        ELSE "invalid"

\* A loop that goes on to the next attempt behind an accepted correction.
AttemptContinuing ==
    /\ pc = "loop"
    /\ more_attempts(attempt, max_attempts)
    /\ attempt' = attempt + 1
    /\ calls' = calls + 1
    /\ \E service \in Outcomes(Concats(CorrectionPieces, MaxCorrectionPieces)) :
          LET corrected_latex == extract_latex_from_response(service.text)
              log == Append(corrections_made, [attempt |-> attempt + 1])
          IN  /\ raised' = service.raised
              /\ history' = Append(history,
                                   AttemptOutcome(service, latex_content))
              /\ response_text' = <<>>
              /\ IF ~service.raised
                    /\ correction_accepted(corrected_latex, latex_content)
                 THEN /\ corrections_made' = log
                      /\ ret' = [latex |-> corrected_latex, success |-> TRUE,
                                 corrections |-> log]
                      /\ pc' = IF more_attempts(attempt + 1, max_attempts)
                               THEN "loop" ELSE "done"
                 ELSE UNCHANGED <<corrections_made, ret, pc>>
    /\ UNCHANGED <<latex_content, validate, issues, max_attempts,
                   content_dir, data_dir,
                   step, request, tex_file, compilations, outcome>>

\* One iteration of the loop of self_correct_compilation_errors (lines
\* 441-512): the service call, the checks, and the return on acceptance.
\* A rejected reply is dropped: the loop never reads it again.
Attempt ==
    /\ pc = "loop"
    /\ more_attempts(attempt, max_attempts)
    /\ attempt' = attempt + 1
    /\ calls' = calls + 1
    /\ \E service \in Outcomes(Concats(CorrectionPieces, MaxCorrectionPieces)) :
          LET corrected_latex == extract_latex_from_response(service.text)
              log == Append(corrections_made, [attempt |-> attempt + 1])
          IN  /\ raised' = service.raised
              /\ history' = Append(history,
                                   AttemptOutcome(service, latex_content))
              /\ IF ~service.raised
                    /\ correction_accepted(corrected_latex, latex_content)
                 THEN /\ response_text' = service.text
                      /\ corrections_made' = log
                      /\ ret' = [latex |-> corrected_latex, success |-> TRUE,
                                 corrections |-> log]
                      /\ pc' = "done"
                 ELSE /\ response_text' = <<>>
                      /\ UNCHANGED <<corrections_made, ret, pc>>
    /\ UNCHANGED <<latex_content, validate, issues, max_attempts,
                   content_dir, data_dir,
                   step, request, tex_file, compilations, outcome>>

\* Lines 514-516: the loop ran out.
AllAttemptsFailed ==
    /\ pc = "loop"
    /\ ~more_attempts(attempt, max_attempts)
    /\ ret' = [latex |-> latex_content, success |-> FALSE,
               corrections |-> corrections_made]
    /\ pc' = "done"
    /\ UNCHANGED <<latex_content, response_text, raised, validate, issues,
                   max_attempts, attempt, calls, history, corrections_made,
                   content_dir, data_dir,
                   step, request, tex_file, compilations, outcome>>

InitSelfCorrect ==
    /\ pc = "loop"
    /\ \E original \in Originals, limit \in 0..MaxAttemptsBound :
          /\ latex_content = original
          /\ max_attempts = limit
          /\ response_text = <<>> /\ raised = FALSE /\ ret = <<>>
          /\ validate = TRUE /\ issues = <<>>
          /\ attempt = 0 /\ calls = 0 /\ history = <<>>
          /\ corrections_made = <<>>
          /\ content_dir = NoFiles /\ data_dir = NoData
          /\ NotOrchestrated

NextSelfCorrect == Attempt \/ AllAttemptsFailed

SpecSelfCorrect == InitSelfCorrect /\ [][NextSelfCorrect]_vars

\* The loop is synchronous code and every service call blocks until it has
\* replied or raised: a step that can be taken is taken.
FairSelfCorrect == SpecSelfCorrect /\ WF_vars(NextSelfCorrect)

\* What generate_document hands back: a LaTeXGenerationResult, or (exception
\* # "none") an exception that left it.
GenerationResult(ok, latex, warnings, improvements, message) ==
    [exception |-> "none", success |-> ok, latex_content |-> latex,
     warnings |-> warnings, improvements_made |-> improvements,
     error_message |-> message]
GenerationRaised(type) ==
    [exception |-> type, success |-> FALSE, latex_content |-> <<>>,
     warnings |-> <<>>, improvements_made |-> <<>>, error_message |-> "None"]

\* A plausible slip: the validate argument is not looked at.
GenerateInitialAlwaysValidating ==
    /\ pc = "generate"
    /\ calls' = calls + 1
    /\ \E service \in Outcomes(Concats(GenerationPieces, MaxGenPieces)) :
          LET latex == IF service.raised THEN <<>>
                       ELSE extract_latex_from_response(service.text)
          IN  /\ response_text' = service.text
              /\ raised' = service.raised
              /\ history' = Append(history, [raised |-> service.raised])
              /\ latex_content' = latex
              /\ IF latex = <<>>
                 THEN /\ ret' = GenerationResult(FALSE, <<>>, <<>>, <<>>,
                                    "Failed to generate initial LaTeX")
                      /\ pc' = "done"
                 ELSE /\ pc' = "validate"
                      /\ UNCHANGED ret
    /\ UNCHANGED <<validate, issues, max_attempts, attempt, corrections_made,
                   content_dir, data_dir,
                   step, request, tex_file, compilations, outcome>>

\* Lines 70-79 and 93-98: _generate_initial_latex (lines 100-123: the call,
\* the extraction, "" on an exception), the early return on an empty
\* document, and the return without validation.
GenerateInitial ==
    /\ pc = "generate"
    /\ calls' = calls + 1
    /\ \E service \in Outcomes(Concats(GenerationPieces, MaxGenPieces)) :
          LET latex == IF service.raised THEN <<>>
                       ELSE extract_latex_from_response(service.text)
          IN  /\ response_text' = service.text
              /\ raised' = service.raised
              /\ history' = Append(history, [raised |-> service.raised])
              /\ latex_content' = latex
              /\ IF latex = <<>>
                 THEN /\ ret' = GenerationResult(FALSE, <<>>, <<>>, <<>>,
                                    "Failed to generate initial LaTeX")
                      /\ pc' = "done"
                 ELSE IF validate
                 THEN /\ pc' = "validate"
                      /\ UNCHANGED ret
                 ELSE /\ ret' = GenerationResult(TRUE, latex, <<>>, <<>>, "None")
                      /\ pc' = "done"
    /\ UNCHANGED <<validate, issues, max_attempts, attempt, corrections_made,
                   content_dir, data_dir,
                   step, request, tex_file, compilations, outcome>>

\* Lines 85-98: the validation pass and the result.  warnings.extend raises
\* TypeError when _validate_and_fix_latex hands back warnings that cannot
\* be iterated.
ValidatePass ==
    /\ pc = "validate"
    /\ calls' = calls + 1
    /\ \E service \in Outcomes(Concats(GenerationPieces, MaxGenPieces)) :
          LET checked == validate_and_fix_latex(latex_content, service)
          IN  /\ response_text' = service.text
              /\ raised' = service.raised
              /\ history' = Append(history, [raised |-> service.raised])
              /\ latex_content' = checked.latex
              /\ ret' = IF PyIterable(checked.warnings)
                        THEN GenerationResult(TRUE, checked.latex,
                                 PyElements(checked.warnings),
                                 checked.improvements, "None")
                        ELSE GenerationRaised("TypeError")
    /\ pc' = "done"
    /\ UNCHANGED <<validate, issues, max_attempts, attempt, corrections_made,
                   content_dir, data_dir,
                   step, request, tex_file, compilations, outcome>>

InitGenerate ==
    /\ pc = "generate"
    /\ \E flag \in BOOLEAN :
          /\ validate = flag
          /\ latex_content = <<>>
          /\ response_text = <<>> /\ raised = FALSE /\ ret = <<>>
          /\ issues = <<>> /\ max_attempts = 0
          /\ attempt = 0 /\ calls = 0 /\ history = <<>>
          /\ corrections_made = <<>>
          /\ content_dir = NoFiles /\ data_dir = NoData
          /\ NotOrchestrated

NextGenerate == GenerateInitial \/ ValidatePass

SpecGenerate == InitGenerate /\ [][NextGenerate]_vars

\* load_all_markdown_sections on the content directory.
LoadAllMarkdownSections ==
    /\ pc = "load_sections"
    /\ ret' = load_all_markdown_sections(content_dir)
    /\ pc' = "done"
    /\ UNCHANGED <<latex_content, response_text, raised, validate, issues,
                   max_attempts, attempt, calls, history, corrections_made,
                   content_dir, data_dir,
                   step, request, tex_file, compilations, outcome>>

InitSections ==
    /\ pc = "load_sections"
    /\ \E dir \in [MarkdownNames -> MarkdownFileStates] :
          /\ content_dir = dir
          /\ data_dir = NoData
          /\ NotOrchestrated
          /\ latex_content = <<>>
          /\ response_text = <<>> /\ raised = FALSE /\ ret = <<>>
          /\ validate = TRUE /\ issues = <<>> /\ max_attempts = 0
          /\ attempt = 0 /\ calls = 0 /\ history = <<>>
          /\ corrections_made = <<>>

SpecSections == InitSections /\ [][LoadAllMarkdownSections]_vars

\* load_csv_tables on the data directory.
LoadCsvTables ==
    /\ pc = "load_tables"
    /\ ret' = load_csv_tables(data_dir)
    /\ pc' = "done"
    /\ UNCHANGED <<latex_content, response_text, raised, validate, issues,
                   max_attempts, attempt, calls, history, corrections_made,
                   content_dir, data_dir,
                   step, request, tex_file, compilations, outcome>>

InitTables ==
    /\ pc = "load_tables"
    /\ \E dir \in [{"model_performance.csv", "training_metrics.csv"}
                      -> CsvFileStates] :
          /\ data_dir = dir
          /\ content_dir = NoFiles
          /\ NotOrchestrated
          /\ latex_content = <<>>
          /\ response_text = <<>> /\ raised = FALSE /\ ret = <<>>
          /\ validate = TRUE /\ issues = <<>> /\ max_attempts = 0
          /\ attempt = 0 /\ calls = 0 /\ history = <<>>
          /\ corrections_made = <<>>

SpecTables == InitTables /\ [][LoadCsvTables]_vars

-----------------------------------------------------------------------------
(* generate_and_compile: the loaders, generate_document with validate=True, *)
(* the write of research_report.tex and one call of the PDF compiler.      *)
(* Figure discovery only feeds the prompt and is left out.                 *)

TEX_PATH == "research_report.tex"
PDF_PATH == "research_report.pdf"

\* pattern_injector.get_context_for_author(): no learned patterns, or some.
PatternContexts == {<<>>, <<"p">>}

\* pdf_compiler.compile(path): a success flag and a message.
CompilerReplies ==
    {[success |-> TRUE, message |-> "Compilation successful"],
     [success |-> FALSE, message |-> "Undefined control sequence"],
     [success |-> FALSE, message |-> ""]}

\* Lines 186-201: the five fixed requirements, and the learned patterns as a
\* sixth when there are any.
requirements_for(pattern_context) ==
    IF pattern_context # <<>> THEN <<"typography", "booktabs", "hyperref",
                                     "hierarchy", "spacing", "patterns">>
    ELSE <<"typography", "booktabs", "hyperref", "hierarchy", "spacing">>

\* Lines 240-243: the dictionary returned when generation failed.
GenerationFailure(result) ==
    [exception |-> "none", success |-> FALSE, error |-> result.error_message]

\* Lines 257-276: the dictionary returned behind the compiler.
CompilationOutcome(result, compiled) ==
    LET pdf_result ==
            [success |-> compiled.success, message |-> compiled.message,
             pdf_path |-> IF compiled.success THEN PDF_PATH ELSE "None"]
    IN  [exception |-> "none", success |-> pdf_result.success,
         tex_path |-> TEX_PATH, pdf_path |-> pdf_result.pdf_path,
         latex_result |-> result, compilation_result |-> pdf_result]

\* An exception that left generate_document leaves generate_and_compile:
\* neither generate_with_patterns nor generate_and_compile has a try.
OutcomeRaised(type) == [exception |-> type, success |-> FALSE]

\* Lines 165-211: the pattern context, the loaders and the request.
LoadRequest ==
    /\ step = "load"
    /\ \E pattern_context \in PatternContexts :
          request' = [content_sections |-> load_all_markdown_sections(content_dir),
                      tables |-> load_csv_tables(data_dir),
                      requirements |-> requirements_for(pattern_context)]
    /\ step' = "generate"
    /\ pc' = "generate"
    /\ UNCHANGED <<latex_content, response_text, raised, ret, validate, issues,
                   max_attempts, attempt, calls, history, corrections_made,
                   content_dir, data_dir, tex_file, compilations, outcome>>

\* Lines 239-243: generate_document returned success=False.
GenerationFailed ==
    /\ step = "generate" /\ pc = "done"
    /\ ret.exception = "none" /\ ~ret.success
    /\ outcome' = GenerationFailure(ret)
    /\ step' = "returned"
    /\ UNCHANGED <<pc, latex_content, response_text, raised, ret, validate,
                   issues, max_attempts, attempt, calls, history,
                   corrections_made, content_dir, data_dir, request, tex_file,
                   compilations>>

\* Line 237: generate_document raised.
GenerationEscaped ==
    /\ step = "generate" /\ pc = "done"
    /\ ret.exception # "none"
    /\ outcome' = OutcomeRaised(ret.exception)
    /\ step' = "returned"
    /\ UNCHANGED <<pc, latex_content, response_text, raised, ret, validate,
                   issues, max_attempts, attempt, calls, history,
                   corrections_made, content_dir, data_dir, request, tex_file,
                   compilations>>

\* The compiler reached without the document having been written.
WriteTexSkipped ==
    /\ step = "generate" /\ pc = "done"
    /\ ret.exception = "none" /\ ret.success
    /\ step' = "compile"
    /\ UNCHANGED <<pc, latex_content, response_text, raised, ret, validate,
                   issues, max_attempts, attempt, calls, history,
                   corrections_made, content_dir, data_dir, request,
                   tex_file, compilations, outcome>>

\* Lines 246-248: the document is written to research_report.tex.
WriteTex ==
    /\ step = "generate" /\ pc = "done"
    /\ ret.exception = "none" /\ ret.success
    /\ tex_file' = ret.latex_content
    /\ step' = "compile"
    /\ UNCHANGED <<pc, latex_content, response_text, raised, ret, validate,
                   issues, max_attempts, attempt, calls, history,
                   corrections_made, content_dir, data_dir, request,
                   compilations, outcome>>

\* A compiler that is called once more when it reported a failure.
CompileRetrying ==
    /\ step = "compile"
    /\ \E compiled \in CompilerReplies :
          /\ compilations' = Append(compilations, compiled)
          /\ outcome' = CompilationOutcome(ret, compiled)
          /\ step' = IF compiled.success \/ compilations # <<>>
                     THEN "returned" ELSE "compile"
    /\ UNCHANGED <<pc, latex_content, response_text, raised, ret, validate,
                   issues, max_attempts, attempt, calls, history,
                   corrections_made, content_dir, data_dir, request, tex_file>>

\* Lines 254-276: the compiler is called on the file, and its answer is
\* returned.
Compile ==
    /\ step = "compile"
    /\ \E compiled \in CompilerReplies :
          /\ compilations' = Append(compilations, compiled)
          /\ outcome' = CompilationOutcome(ret, compiled)
    /\ step' = "returned"
    /\ UNCHANGED <<pc, latex_content, response_text, raised, ret, validate,
                   issues, max_attempts, attempt, calls, history,
                   corrections_made, content_dir, data_dir, request, tex_file>>

\* The directories generate_and_compile is run on.
OnlyIntroduction ==
    [f \in MarkdownNames |->
        IF f = "introduction.md" THEN [exists |-> TRUE, content |-> HELLO]
        ELSE [exists |-> FALSE, content |-> <<>>]]

InitCompile ==
    /\ pc = "start"
    /\ step = "load"
    /\ content_dir \in {NoFiles, OnlyIntroduction}
    /\ data_dir = NoData
    /\ validate = TRUE
    /\ latex_content = <<>>
    /\ response_text = <<>> /\ raised = FALSE /\ ret = <<>>
    /\ issues = <<>> /\ max_attempts = 0
    /\ attempt = 0 /\ calls = 0 /\ history = <<>>
    /\ corrections_made = <<>>
    /\ request = <<>> /\ tex_file = Absent
    /\ compilations = <<>> /\ outcome = <<>>

NextCompile ==
    \/ LoadRequest
    \/ GenerateInitial
    \/ ValidatePass
    \/ GenerationFailed
    \/ GenerationEscaped
    \/ WriteTex
    \/ Compile

SpecCompile == InitCompile /\ [][NextCompile]_vars

-----------------------------------------------------------------------------
(* Vocabulary of the properties, stated without the Python primitives.     *)

\* text[from..to) by 0-based offsets, from <= to.
Between(text, from, to) == SubSeq(text, from + 1, to)

\* t is s without its leading and trailing whitespace.
IsTrimOf(t, s) ==
    \E a \in 0..Len(s) : \E b \in 0..(Len(s) - a) :
        /\ t = SubSeq(s, a + 1, Len(s) - b)
        /\ \A i \in 1..a : s[i] \in Whitespace
        /\ \A i \in (Len(s) - b + 1)..Len(s) : s[i] \in Whitespace
        /\ t # <<>> => (t[1] \notin Whitespace /\ t[Len(t)] \notin Whitespace)
        /\ t = <<>> => a + b = Len(s)

\* The last service reply's document, as every entry point extracts it.
Candidate == extract_latex_from_response(response_text)

\* At least half as long as the original.
HalfAsLong(candidate, original) == 2 * Len(candidate) >= Len(original)

-----------------------------------------------------------------------------
(* C6: the extraction rule.                                                *)

\* Offset just behind the opening fence the rule uses, or -1 without fence.
OpeningEnd(text) ==
    IF Offsets(text, FENCE_LATEX) # {}
    THEN SetMin(Offsets(text, FENCE_LATEX)) + Len(FENCE_LATEX)
    ELSE IF Offsets(text, FENCE) # {}
    THEN SetMin(Offsets(text, FENCE)) + Len(FENCE)
    ELSE -1

\* Offsets of the fence markers at or behind the opening fence's end.
ClosingOffsets(text) == {j \in Offsets(text, FENCE) : j >= OpeningEnd(text)}

\* C6 as stated: with a language-tagged opening fence and a later fence
\* marker the result is exactly the text between them; else, with a fence
\* and a second marker, exactly the text between those; without any fence
\* the trimmed reply.
C6_ExactSubstring ==
    pc = "done" =>
        IF OpeningEnd(response_text) = -1
        THEN IsTrimOf(ret, response_text)
        ELSE ClosingOffsets(response_text) # {} =>
                 ret = Between(response_text, OpeningEnd(response_text),
                               SetMin(ClosingOffsets(response_text)))

\* C6 (amended): the result is the text between the opening fence (the first
\* language-tagged one if there is any, else the first fence) and the next
\* fence marker, trimmed of surrounding whitespace; with no later marker,
\* the text behind the opening fence less its last character, trimmed;
\* without any fence the whole reply, trimmed.
C6_TrimmedSubstring ==
    pc = "done" =>
        IF OpeningEnd(response_text) = -1
        THEN IsTrimOf(ret, response_text)
        ELSE IF ClosingOffsets(response_text) # {}
        THEN IsTrimOf(ret, Between(response_text, OpeningEnd(response_text),
                                   SetMin(ClosingOffsets(response_text))))
        ELSE IF OpeningEnd(response_text) < Len(response_text)
        THEN IsTrimOf(ret, Between(response_text, OpeningEnd(response_text),
                                   Len(response_text) - 1))
        ELSE ret = <<>>

\* A tagged, closed block whose content has surrounding whitespace and text.
C6_Witness ==
    /\ pc = "done"
    /\ Offsets(response_text, FENCE_LATEX) # {}
    /\ ClosingOffsets(response_text) # {}
    /\ ret # <<>>
    /\ ret # Between(response_text, OpeningEnd(response_text),
                     SetMin(ClosingOffsets(response_text)))

-----------------------------------------------------------------------------
(* C4: the length guard of the validation pass.                            *)

\* C4: the validation pass never returns a document shorter than half the
\* document it was given; when the service raised, or the extracted
\* candidate is empty or shorter than half the input, it returns the input.
C4_NeverShorterThanHalf ==
    pc = "done" =>
        /\ HalfAsLong(ret.latex, latex_content)
        /\ (raised \/ Candidate = <<>> \/ ~HalfAsLong(Candidate, latex_content))
               => ret.latex = latex_content

\* A non-empty candidate that is too short was discarded.
C4_Witness ==
    /\ pc = "done"
    /\ ~raised
    /\ Candidate # <<>>
    /\ ~HalfAsLong(Candidate, latex_content)
    /\ ret.latex = latex_content

-----------------------------------------------------------------------------
(* C7: which text is parsed as the issue JSON.                             *)

BraceOpens(text) == {i \in 1..Len(text) : text[i] = "{"}
BraceCloses(text) == {i \in 1..Len(text) : text[i] = "}"}

\* Position of the closing brace that matches the opening brace at open
\* (0 if there is none).
MatchingClose(text, open) ==
    LET balanced == {j \in BraceCloses(text) :
                        /\ j > open
                        /\ Cardinality({k \in BraceOpens(text) : open <= k /\ k <= j})
                             = Cardinality({k \in BraceCloses(text) : open <= k /\ k <= j})}
    IN  IF balanced = {} THEN 0 ELSE SetMin(balanced)

\* The object C7 names: from the first opening brace behind the marker to
\* its matching closing brace (empty if there is none).
ObjectAfterMarker(text) ==
    LET marker_end == SetMin(Offsets(text, ISSUES_MARKER)) + Len(ISSUES_MARKER)
        opens == {i \in BraceOpens(text) : i > marker_end}
    IN  IF opens = {} \/ MatchingClose(text, SetMin(opens)) = 0 THEN <<>>
        ELSE SubSeq(text, SetMin(opens), MatchingClose(text, SetMin(opens)))

\* The first opening brace of the whole reply up to the first closing brace
\* behind it (empty if there is none).
FirstBraceSpan(text) ==
    LET closes == {j \in BraceCloses(text) : j > SetMin(BraceOpens(text))}
    IN  IF BraceOpens(text) = {} THEN <<>>
        ELSE IF closes = {} THEN <<>>
        ELSE SubSeq(text, SetMin(BraceOpens(text)), SetMin(closes))

\* The warnings read from a text handed to json.loads.
WarningsOf(json_text) ==
    LET parsed == JsonLoads(json_text)
    IN  IF parsed.ok /\ parsed.val.kind = "dict"
        THEN DictGet(parsed.val, ISSUES_KEY, PyList(<<>>))
        ELSE PyList(<<Message("Unable to parse validation issues")>>)

\* The warnings reported are those of json_text, unless len() of them raised
\* on the accepting path.
ReportsWarningsOf(json_text) ==
    \/ ret.warnings = WarningsOf(json_text)
    \/ /\ ~PySized(WarningsOf(json_text))
       /\ ret = validation_failed(latex_content)

\* C7 as stated: for a reply with the marker, the object parsed is the one
\* opened by the first brace behind the marker and closed by its matching
\* brace, whatever braces precede the marker.
C7_ObjectAfterMarker ==
    (pc = "done" /\ ~raised /\ PyIn(ISSUES_MARKER, response_text)) =>
        /\ issues_json_text(response_text) = ObjectAfterMarker(response_text)
        /\ ReportsWarningsOf(ObjectAfterMarker(response_text))

\* C7 (amended): for a reply with the marker, the text parsed runs from the
\* first opening brace of the whole reply (which may precede the marker, as
\* in the requested {"issues": [...]}) to the first closing brace behind it;
\* when the reply has no such pair, what is parsed is no JSON and the
\* warnings are the generic string.  The marker only decides whether
\* anything is parsed.
C7_FirstBraceOfReply ==
    (pc = "done" /\ ~raised /\ PyIn(ISSUES_MARKER, response_text)) =>
        /\ FirstBraceSpan(response_text) # <<>>
               => issues_json_text(response_text) = FirstBraceSpan(response_text)
        /\ FirstBraceSpan(response_text) = <<>>
               => ~JsonLoads(issues_json_text(response_text)).ok
        /\ ReportsWarningsOf(FirstBraceSpan(response_text))

\* The requested format: the object's brace precedes the marker, and its
\* issues are reported.
C7_Witness ==
    /\ pc = "done"
    /\ ~raised
    /\ PyIn(ISSUES_MARKER, response_text)
    /\ BraceOpens(response_text) # {}
    /\ SetMin(BraceOpens(response_text)) - 1 < PyFind(response_text, ISSUES_MARKER, 0)
    /\ ret.warnings = PyList(<<PyStr(<<"a">>)>>)

-----------------------------------------------------------------------------
(* C8: a parse failure degrades to the generic warning.                    *)

\* C8: when the reply holds the marker and the issue JSON cannot be parsed,
\* the warnings are exactly the one generic string, and the candidate is
\* still returned whenever it is non-empty and at least half as long as the
\* input.
C8_ParseFailureDegrades ==
    (/\ pc = "done"
     /\ ~raised
     /\ PyIn(ISSUES_MARKER, response_text)
     /\ LET parsed == JsonLoads(issues_json_text(response_text))
        IN  ~(parsed.ok /\ parsed.val.kind = "dict")) =>
        /\ ret.warnings = PyList(<<Message("Unable to parse validation issues")>>)
        /\ (Candidate # <<>> /\ HalfAsLong(Candidate, latex_content))
               => ret.latex = Candidate

\* An unparseable issue list beside an accepted correction.
C8_Witness ==
    /\ pc = "done"
    /\ ~raised
    /\ PyIn(ISSUES_MARKER, response_text)
    /\ ~JsonLoads(issues_json_text(response_text)).ok
    /\ PyIn(BEGIN_DOC, Candidate)
    /\ ret.latex = Candidate
    /\ ret.latex # latex_content
    /\ ret.warnings = PyList(<<Message("Unable to parse validation issues")>>)

-----------------------------------------------------------------------------
(* C5: acceptance of a visual-QA fix.                                      *)

\* The candidate passes the four checks C5 lists.
FixChecksPass ==
    /\ ~raised
    /\ Candidate # <<>>
    /\ HalfAsLong(Candidate, latex_content)
    /\ Cardinality(Offsets(Candidate, BEGIN_ENV))
         = Cardinality(Offsets(Candidate, END_ENV))
    /\ Offsets(Candidate, BEGIN_DOC) # {}
    /\ Offsets(Candidate, END_DOC) # {}

\* C5: success with the candidate exactly when the call did not raise and
\* the candidate passes every check; otherwise the original document,
\* success = FALSE and no fixes, whatever the issue list holds.
C5_AcceptedIffChecksPass ==
    pc = "done" =>
        /\ ret.success <=> FixChecksPass
        /\ FixChecksPass => ret.latex = Candidate
        /\ ~FixChecksPass =>
               /\ ret.latex = latex_content
               /\ ret.fixes_applied = <<>>

\* A long enough reply with \begin{document} and balanced environments but
\* no \end{document}, for a non-empty issue list.
C5_Witness ==
    /\ pc = "done"
    /\ ~raised
    /\ issues # <<>>
    /\ HalfAsLong(Candidate, latex_content)
    /\ Cardinality(Offsets(Candidate, BEGIN_ENV))
         = Cardinality(Offsets(Candidate, END_ENV))
    /\ Offsets(Candidate, BEGIN_DOC) # {}
    /\ Offsets(Candidate, END_DOC) = {}
    /\ ~ret.success
    /\ ret.latex = latex_content

-----------------------------------------------------------------------------
(* C1, C2: the bounded self-correction loop.                               *)

\* C1: at most max_attempts service calls are made, one per attempt; a
\* structurally valid reply ends the run at once with success and that
\* reply's document (it is the last attempt made); and success is returned
\* only for such a reply.
C1_BoundedAndStopsAtFirstValid ==
    /\ calls <= max_attempts
    /\ calls = Len(history)
    /\ \A k \in 1..Len(history) :
          history[k] = "valid" =>
              /\ k = Len(history)
              /\ pc = "done"
              /\ ret.success
              /\ ret.latex = Candidate
    /\ (pc = "done" /\ ret.success) =>
          (history # <<>> /\ history[Len(history)] = "valid")

\* With three attempts allowed, the second reply was valid: two calls.
C1_Witness ==
    /\ pc = "done"
    /\ max_attempts = 3
    /\ history = <<"invalid", "valid">>
    /\ calls = 2
    /\ ret.success

\* C2: when every one of the max_attempts attempts failed validation or
\* raised, the original document is returned unmodified with success =
\* FALSE and the correction log as accumulated.
C2_ExhaustedReturnsOriginal ==
    (pc = "done" /\ \A k \in 1..Len(history) : history[k] # "valid") =>
        /\ Len(history) = max_attempts
        /\ ret.latex = latex_content
        /\ ~ret.success
        /\ ret.corrections = corrections_made

\* Three attempts, an exception among them and an invalid reply, all failed.
C2_Witness ==
    /\ pc = "done"
    /\ max_attempts = 3
    /\ history = <<"exception", "invalid", "exception">>
    /\ ~ret.success
    /\ ret.latex = latex_content

-----------------------------------------------------------------------------
(* C3: generate_document fails softly.                                     *)

\* C3: generate_document always returns a result and never raises; when the
\* initial generation call raised, the result has success = FALSE, an empty
\* document and an error message.
C3_NeverRaises ==
    pc = "done" =>
        /\ ret.exception = "none"
        /\ history[1].raised =>
               /\ ~ret.success
               /\ ret.latex_content = <<>>
               /\ ret.error_message # "None"

-----------------------------------------------------------------------------
(* C9: the markdown sections.                                              *)

SectionOf(entry, dir) ==
    [title |-> entry.title, content |-> dir[entry.filename].content,
     type |-> "markdown"]

\* C9 as stated: one section per file that exists, in the declared order.
C9_OnePerExistingFile ==
    pc = "done" =>
        LET Exists(entry) == content_dir[entry.filename].exists
            present == SelectSeq(markdown_files, Exists)
        IN  ret = [i \in 1..Len(present) |-> SectionOf(present[i], content_dir)]

\* C9 (amended): one section per file that exists and is not empty, in the
\* declared order; only introduction.md holding "Hello" gives the single
\* section Introduction / Hello / markdown.
C9_OnePerNonEmptyFile ==
    pc = "done" =>
        LET HasText(entry) ==
                /\ content_dir[entry.filename].exists
                /\ content_dir[entry.filename].content # <<>>
            present == SelectSeq(markdown_files, HasText)
        IN  /\ ret = [i \in 1..Len(present) |-> SectionOf(present[i], content_dir)]
            /\ (\A f \in MarkdownNames :
                   content_dir[f] = IF f = "introduction.md"
                                    THEN [exists |-> TRUE, content |-> HELLO]
                                    ELSE [exists |-> FALSE, content |-> <<>>])
                   => ret = <<[title |-> "Introduction", content |-> HELLO,
                               type |-> "markdown"]>>

\* Some files absent, the others with text: the sections of those, in order.
C9_Witness ==
    /\ pc = "done"
    /\ ~content_dir["introduction.md"].exists
    /\ ~content_dir["research_areas.md"].exists
    /\ Len(ret) = 2
    /\ ret[1].title = "Methodology"
    /\ ret[2].title = "Conclusion"

-----------------------------------------------------------------------------
(* C10: the two tables.                                                    *)

\* C10: for a training_metrics.csv of more than 6 rows the limited table is
\* the header row and the first 5 data rows, in file order; the
\* model_performance.csv table holds every row of its file.
C10_FirstFiveDataRows ==
    pc = "done" =>
        LET model == data_dir["model_performance.csv"]
            training == data_dir["training_metrics.csv"]
            limited == {i \in 1..Len(ret) :
                           ret[i].caption = "Training Progression (First 5 Epochs)"}
            full == {i \in 1..Len(ret) :
                        ret[i].caption = "Model Performance Comparison"}
        IN  /\ (training.exists /\ Len(training.lines) > 6) =>
                   /\ Cardinality(limited) = 1
                   /\ \A i \in limited :
                          /\ Len(ret[i].data) = 6
                          /\ \A r \in 1..6 :
                                 ret[i].data[r] = CsvRow(training.lines[r])
            /\ (model.exists /\ Len(model.lines) > 0) =>
                   /\ Cardinality(full) = 1
                   /\ \A i \in full :
                          /\ Len(ret[i].data) = Len(model.lines)
                          /\ \A r \in 1..Len(model.lines) :
                                 ret[i].data[r] = CsvRow(model.lines[r])

\* Both files hold more than 6 rows: one table is cut to 6, the other not.
C10_Witness ==
    /\ pc = "done"
    /\ Len(data_dir["training_metrics.csv"].lines) > 6
    /\ Len(data_dir["model_performance.csv"].lines) > 6
    /\ Len(ret) = 2
    /\ Len(ret[1].data) > 6
    /\ Len(ret[2].data) = 6


-----------------------------------------------------------------------------
(* generate_and_compile.                                                   *)

\* C11: the steps come in the order load, generate, write, compile.  No
\* service call is made before the request is built; research_report.tex is
\* written only with the text of a successful generation result; the
\* compiler is called only once that text is in the file; and when
\* generate_document returned success=False the file is not written, the
\* compiler is not called and the outcome is success=False with the
\* generation result's error message.
C11_LoadGenerateWriteCompile ==
    /\ calls > 0 => step # "load"
    /\ tex_file # Absent =>
          /\ pc = "done" /\ ret.exception = "none" /\ ret.success
          /\ tex_file = ret.latex_content
    /\ compilations # <<>> =>
          /\ tex_file # Absent
          /\ tex_file = ret.latex_content
    /\ step = "compile" => tex_file # Absent
    /\ (step = "returned" /\ ret.exception = "none" /\ ~ret.success) =>
          /\ tex_file = Absent
          /\ compilations = <<>>
          /\ outcome.exception = "none"
          /\ ~outcome.success
          /\ outcome.error = ret.error_message
          /\ outcome.error = "Failed to generate initial LaTeX"

\* The whole pipeline ran: the generated document is in the file and the
\* compiler accepted it.
C11_Witness ==
    /\ step = "returned"
    /\ calls = 2
    /\ tex_file = DOC
    /\ Len(compilations) = 1
    /\ outcome.success

\* C12: the compiler is called at most once in a run and self-correction is
\* never started; once the compiler has answered, no service call and no
\* compiler call follows; and when it reported a failure the outcome is
\* success=False with a null PDF path and, in its compilation result, the
\* very message the compiler gave.
C12_NoRetryAfterCompilerFailure ==
    [][/\ Len(compilations') <= 1
       /\ attempt' = 0 /\ corrections_made' = <<>>
       /\ compilations # <<>> =>
             /\ calls' = calls
             /\ compilations' = compilations
             /\ outcome' = outcome
       /\ (compilations' # <<>> /\ ~compilations'[1].success) =>
             /\ step' = "returned"
             /\ ~outcome'.success
             /\ outcome'.pdf_path = "None"
             /\ outcome'.compilation_result.message = compilations'[1].message
             /\ ~outcome'.compilation_result.success
             /\ outcome'.compilation_result.pdf_path = "None"]_vars

\* The compiler rejected the generated document.
C12_Witness ==
    /\ step = "returned"
    /\ Len(compilations) = 1
    /\ compilations[1] = [success |-> FALSE,
                          message |-> "Undefined control sequence"]
    /\ ~outcome.success

\* C13: a run of generate_and_compile never ends in an exception: whatever
\* the service and the compiler answer, it returns a dictionary, and a
\* failed generation shows as success=False with a message.
C13_NoExceptionPastEntryPoint ==
    step = "returned" =>
        /\ outcome.exception = "none"
        /\ ret.exception = "none"
        /\ ~ret.success => (~outcome.success /\ outcome.error # "None")

-----------------------------------------------------------------------------
(* The self-correction loop as a state machine: Attempting(n) is the loop  *)
(* with n - 1 attempts behind it, Corrected and Exhausted are the two      *)
(* returns.                                                                *)

Corrected == pc = "done" /\ ret.success
Exhausted == pc = "done" /\ ~ret.success
Failed(k) == history[k] \in {"invalid", "exception"}

\* C14: for max_attempts >= 1, attempts are numbered 1, 2, ... with no gap;
\* an attempt is started only when every attempt before it gave an invalid
\* reply or raised; Corrected is entered only from an attempt with a valid
\* reply, Exhausted only when attempt number max_attempts has failed; and
\* every run ends, in Corrected or in Exhausted.
C14_LoopStateMachine ==
    /\ [](max_attempts >= 1 =>
            /\ attempt = Len(history) /\ attempt <= max_attempts
            /\ \A k \in 1..(Len(history) - 1) : Failed(k)
            /\ pc = "loop" => \A k \in 1..Len(history) : Failed(k)
            /\ Corrected => /\ history # <<>>
                            /\ history[Len(history)] = "valid"
            /\ Exhausted => /\ Len(history) = max_attempts
                            /\ Failed(max_attempts))
    /\ [][max_attempts >= 1 =>
            /\ attempt' \in {attempt, attempt + 1}
            /\ pc = "done" => pc' = "done"
            /\ (pc = "loop" /\ pc' = "done" /\ attempt' = attempt)
                   => (attempt = max_attempts /\ ~ret'.success)]_vars
    /\ (max_attempts >= 1) ~> (Corrected \/ Exhausted)

\* Attempting(1) -> Attempting(2) -> Attempting(3) -> Corrected.
C14_Witness ==
    /\ max_attempts = 3
    /\ history = <<"exception", "invalid", "valid">>
    /\ Corrected

-----------------------------------------------------------------------------
(* The service calls of one generate_document.                             *)

\* generate_document returned the result of a failed initial generation.
InitialGenerationFailed ==
    ret = GenerationResult(FALSE, <<>>, <<>>, <<>>,
                           "Failed to generate initial LaTeX")

\* C15: one generate_document makes one generation call and then one
\* validation call exactly when validate is true and the initial document
\* is non-empty: never more than two calls, a second call only for a
\* non-empty initial document with validate true, and on return one call
\* when the initial generation failed or validate is false, two otherwise.
C15_OneGenerationOneValidation ==
    /\ [](/\ calls <= 2
          /\ pc = "generate" => calls = 0
          /\ pc = "validate" => (calls = 1 /\ validate /\ latex_content # <<>>)
          /\ pc = "done" =>
                /\ calls >= 1
                /\ calls = 2 <=> (validate /\ ~InitialGenerationFailed)
                /\ InitialGenerationFailed => calls = 1)
    /\ [][/\ calls' \in {calls, calls + 1}
          /\ (calls = 0 /\ calls' = 1) =>
                /\ pc = "generate"
                /\ latex_content' = <<>> => (pc' = "done" /\ InitialGenerationFailed')
                /\ pc' = "validate" <=> (validate /\ latex_content' # <<>>)
          /\ calls' = 2 =>
                (pc = "validate" /\ validate /\ latex_content # <<>>)]_vars

\* Validation asked for and done: two calls.
C15_Witness ==
    /\ pc = "done"
    /\ validate
    /\ calls = 2
    /\ ret.exception = "none" /\ ret.success
    /\ ~raised

\* C16: when the validation call raises behind a successful initial
\* generation, generate_document returns success=True with no error
\* message, the initial document as it was, the single warning "Validation
\* failed: ..." and no improvements.
C16_ValidationExceptionKeepsSuccess ==
    [][(pc = "validate" /\ raised') =>
          /\ pc' = "done"
          /\ ret'.exception = "none"
          /\ ret'.success
          /\ ret'.error_message = "None"
          /\ ret'.latex_content = latex_content
          /\ ret'.latex_content # <<>>
          /\ ret'.warnings = <<Message("Validation failed")>>
          /\ ret'.improvements_made = <<>>]_vars

\* The validation call raised behind a generated document.
C16_Witness ==
    /\ pc = "done"
    /\ calls = 2
    /\ raised
    /\ ret.success
    /\ ret.latex_content = DOC


=============================================================================
